---------------------------- MODULE Spec2Model ----------------------------
(***************************************************************************)
(* A model of borneo/common.py: the order-preserving packed integer codec  *)
(* (PackedInteger) over a bytearray.                                       *)
(*                                                                         *)
(* Python integers are unbounded.  They are modelled as two's complement   *)
(* numbers of PyWidth bytes, most significant byte first; PyWidth is wide  *)
(* enough that no operation of the modelled code overflows it (the widest  *)
(* value the code builds is 0xFFFFFFFFFFFFFFFF shifted left by 64 bits).   *)
(* Offsets, lengths and single bytes are small and are plain integers.     *)
(***************************************************************************)
EXTENDS Integers, Sequences, FiniteSets, TLC

\* ------------------------------------------------------------- bounds
\* Width, in bytes, of the two's complement numbers that stand for Python ints.
PyWidth == 17

\* The calls start at an offset in 0..MaxOffset.
MaxOffset == 1

\* The sampled values lie within MaxDelta of a boundary of the encoding.
MaxDelta == 1

\* A run holds at most MaxSeq packed integers.
MaxSeq == 3

\* The longest buffer a ByteInputStream starts on.
MaxInit == 9

\* The most calls made on one ByteInputStream.
MaxReads == 2

\* The longest buffer a ByteOutputStream starts on.
MaxHeld == 5

\* The most calls made on one ByteOutputStream.
MaxWrites == 2

\* The most calls made on a buffer that a reader and a writer share.
MaxShared == 3

\* time() returns at most MaxTime, and a Memoize gets at most MaxMemoCalls calls.
MaxTime == 3

MaxMemoCalls == 3

\* copy_statement is called until there are MaxStatements PreparedStatements.
MaxStatements == 2

\* NumThreads threads call one PreparedStatement, with topologies whose
\* sequence numbers are in 0..MaxSeqNum.
NumThreads == 2

MaxSeqNum == 2

\* ----------------------------------------------------- Python integers
Byte == 0..255

\* No call made yet, nothing returned yet.
None == [none |-> TRUE]

\* The byte that extends the sign of a.
PySign(a) == IF a[1] >= 128 THEN 255 ELSE 0

\* The Python int of a small integer n.
Py(n) ==
  [i \in 1..PyWidth |->
     IF PyWidth - i >= 4
       THEN (IF n < 0 THEN 255 ELSE 0)
       ELSE (n \div (256 ^ (PyWidth - i))) % 256]

\* A non-negative literal, given by its bytes (0x00FFFFFF is <<0,255,255,255>>).
PyHex(bytes) ==
  [i \in 1..PyWidth |->
     IF i > PyWidth - Len(bytes) THEN bytes[i - (PyWidth - Len(bytes))] ELSE 0]

\* The signed number whose two's complement bytes are given.
PySext(bytes) ==
  [i \in 1..PyWidth |->
     IF i > PyWidth - Len(bytes)
       THEN bytes[i - (PyWidth - Len(bytes))]
       ELSE (IF bytes[1] >= 128 THEN 255 ELSE 0)]

\* x | y and x & y of two bytes, bit by bit.
RECURSIVE BitOr(_, _)
BitOr(x, y) ==
  IF x = 0 THEN y
  ELSE IF y = 0 THEN x
  ELSE IF x = 255 \/ y = 255 THEN 255
  ELSE (IF x % 2 = 1 \/ y % 2 = 1 THEN 1 ELSE 0) + 2 * BitOr(x \div 2, y \div 2)

RECURSIVE BitAnd(_, _)
BitAnd(x, y) ==
  IF x = 0 \/ y = 0 THEN 0
  ELSE IF x = 255 THEN y
  ELSE IF y = 255 THEN x
  ELSE (IF x % 2 = 1 /\ y % 2 = 1 THEN 1 ELSE 0) + 2 * BitAnd(x \div 2, y \div 2)

\* a | b
PyOr(a, b) == [i \in 1..PyWidth |-> BitOr(a[i], b[i])]

\* a & b
PyAnd(a, b) == [i \in 1..PyWidth |-> BitAnd(a[i], b[i])]

\* a >> bits (an arithmetic shift; bits is a multiple of 8)
PyShr(a, bits) ==
  [i \in 1..PyWidth |-> IF i <= bits \div 8 THEN PySign(a) ELSE a[i - bits \div 8]]

\* a << bits (bits is a multiple of 8)
PyShl(a, bits) ==
  [i \in 1..PyWidth |-> IF i + bits \div 8 <= PyWidth THEN a[i + bits \div 8] ELSE 0]

\* The bytes 1..i of a + b, given the carry c into byte i.
RECURSIVE PyAddFrom(_, _, _, _)
PyAddFrom(a, b, i, c) ==
  IF i = 0 THEN <<>>
  ELSE Append(PyAddFrom(a, b, i - 1, (a[i] + b[i] + c) \div 256), (a[i] + b[i] + c) % 256)

\* a + b
PyAdd(a, b) == PyAddFrom(a, b, PyWidth, 0)

\* -a
PyNeg(a) == PyAdd([i \in 1..PyWidth |-> 255 - a[i]], Py(1))

\* a - b
PySub(a, b) == PyAdd(a, PyNeg(b))

RECURSIVE PyLtFrom(_, _, _)
PyLtFrom(a, b, i) ==
  IF i > PyWidth THEN FALSE
  ELSE LET x == IF i = 1 THEN (a[i] + 128) % 256 ELSE a[i]
           y == IF i = 1 THEN (b[i] + 128) % 256 ELSE b[i]
       IN IF x # y THEN x < y ELSE PyLtFrom(a, b, i + 1)

\* a < b
PyLt(a, b) == PyLtFrom(a, b, 1)

\* a <= b
PyLe(a, b) == a = b \/ PyLt(a, b)

\* x & 0xFF, as a byte
LowByte(a) == a[PyWidth]

\* ------------------------------------------------------ PackedInteger
MAX_LENGTH == 5

MAX_LONG_LENGTH == 9

\* A slip: the byte stored one place further on.
PutAfter(s, byte) == [buf |-> [s.buf EXCEPT ![s.offset + 1] = byte], offset |-> s.offset + 1]

\* `buf[offset] = byte; offset += 1`
Put(s, byte) == [buf |-> [s.buf EXCEPT ![s.offset] = byte], offset |-> s.offset + 1]

\* A slip: the conditional store without its `offset += 1`.
PutIfNoAdvance(cond, s, byte) ==
  IF cond THEN [buf |-> [s.buf EXCEPT ![s.offset] = byte], offset |-> s.offset] ELSE s

\* `if cond: buf[offset] = byte; offset += 1`
PutIf(cond, s, byte) == IF cond THEN Put(s, byte) ELSE s

\* `value | mask != 0xFF..FF`: Python's | binds tighter than !=, and value is an
\* unbounded (here negative) int.
IntNegSignificant(value, mask) == PyOr(value, mask) # PyHex(<<255, 255, 255, 255>>)

\* A slip: the test of the negative branch, `value | mask != 0`, in the positive one.
IntPosSignificantOr(value, mask) == PyOr(value, mask) # Py(0)

\* `value & mask != 0`
IntPosSignificant(value, mask) == PyAnd(value, mask) # Py(0)

\* `value += 119`
IntNegAdjust(value) == PyAdd(value, Py(119))

\* A slip: the positive branch adjusted by 120, the bound of the test before it.
IntPosAdjustBy120(value) == PySub(value, Py(120))

\* `value -= 121`
IntPosAdjust(value) == PySub(value, Py(121))

\* The first byte of a negative multi-byte encoding: (0x08 - value_len) & 0xFF
IntNegIndicator(value_len) == (8 - value_len) % 256

\* A slip: the indicator of the negative branch used in the positive one.
IntPosIndicatorAsNegative(value_len) == (8 - value_len) % 256

\* The first byte of a positive multi-byte encoding: (0xF7 + value_len) & 0xFF
IntPosIndicator(value_len) == (247 + value_len) % 256

\* A slip: the single byte biased by 128.
IntSingleByteBy128(value) == LowByte(PyAdd(value, Py(128)))

\* The only byte of a value in [-119, 120]: (value + 127) & 0xFF
IntSingleByte(value) == LowByte(PyAdd(value, Py(127)))

\* PackedInteger.write_sorted_int(buf, offset, value): the buffer after the call and
\* the offset it returns.
WriteSortedInt(buf, offset, value) ==
  LET b1 == offset
      s0 == [buf |-> buf, offset |-> offset + 1]
  IN
  IF PyLt(value, Py(-119)) THEN
    LET v == IntNegAdjust(value)
        s1 == PutIf(IntNegSignificant(v, PyHex(<<0, 255, 255, 255>>)), s0, LowByte(PyShr(v, 24)))
        s2 == PutIf(IntNegSignificant(v, PyHex(<<0, 0, 255, 255>>)), s1, LowByte(PyShr(v, 16)))
        s3 == PutIf(IntNegSignificant(v, PyHex(<<0, 0, 0, 255>>)), s2, LowByte(PyShr(v, 8)))
        s4 == Put(s3, LowByte(v))
        value_len == s4.offset - b1 - 1
    IN [buf |-> [s4.buf EXCEPT ![b1] = IntNegIndicator(value_len)], offset |-> s4.offset]
  ELSE IF PyLt(Py(120), value) THEN
    LET v == IntPosAdjust(value)
        s1 == PutIf(IntPosSignificant(v, PyHex(<<255, 0, 0, 0>>)), s0, LowByte(PyShr(v, 24)))
        s2 == PutIf(IntPosSignificant(v, PyHex(<<255, 255, 0, 0>>)), s1, LowByte(PyShr(v, 16)))
        s3 == PutIf(IntPosSignificant(v, PyHex(<<255, 255, 255, 0>>)), s2, LowByte(PyShr(v, 8)))
        s4 == Put(s3, LowByte(v))
        value_len == s4.offset - b1 - 1
    IN [buf |-> [s4.buf EXCEPT ![b1] = IntPosIndicator(value_len)], offset |-> s4.offset]
  ELSE
    [buf |-> [s0.buf EXCEPT ![b1] = IntSingleByte(value)], offset |-> s0.offset]

\* `value | mask != 0xFF..FF`: Python's | binds tighter than !=, and value is an
\* unbounded (here negative) int.
LongNegSignificant(value, mask) == PyOr(value, mask) # PyHex(<<255, 255, 255, 255, 255, 255, 255, 255>>)

\* `value & mask != 0`
LongPosSignificant(value, mask) == PyAnd(value, mask) # Py(0)

\* `value += 119`
LongNegAdjust(value) == PyAdd(value, Py(119))

\* `value -= 121`
LongPosAdjust(value) == PySub(value, Py(121))

\* A slip: the length stored as it is, not subtracted from 0x08.
LongNegIndicatorPlain(value_len) == value_len % 256

\* The first byte of a negative multi-byte encoding: (0x08 - value_len) & 0xFF
LongNegIndicator(value_len) == (8 - value_len) % 256

\* The first byte of a positive multi-byte encoding: (0xF7 + value_len) & 0xFF
LongPosIndicator(value_len) == (247 + value_len) % 256

\* The only byte of a value in [-119, 120]: (value + 127) & 0xFF
LongSingleByte(value) == LowByte(PyAdd(value, Py(127)))

\* PackedInteger.write_sorted_long(buf, offset, value): the buffer after the call and
\* the offset it returns.
WriteSortedLong(buf, offset, value) ==
  LET b1 == offset
      s0 == [buf |-> buf, offset |-> offset + 1]
  IN
  IF PyLt(value, Py(-119)) THEN
    LET v == LongNegAdjust(value)
        s1 == PutIf(LongNegSignificant(v, PyHex(<<0, 255, 255, 255, 255, 255, 255, 255>>)), s0, LowByte(PyShr(v, 56)))
        s2 == PutIf(LongNegSignificant(v, PyHex(<<0, 0, 255, 255, 255, 255, 255, 255>>)), s1, LowByte(PyShr(v, 48)))
        s3 == PutIf(LongNegSignificant(v, PyHex(<<0, 0, 0, 255, 255, 255, 255, 255>>)), s2, LowByte(PyShr(v, 40)))
        s4 == PutIf(LongNegSignificant(v, PyHex(<<0, 0, 0, 0, 255, 255, 255, 255>>)), s3, LowByte(PyShr(v, 32)))
        s5 == PutIf(LongNegSignificant(v, PyHex(<<0, 0, 0, 0, 0, 255, 255, 255>>)), s4, LowByte(PyShr(v, 24)))
        s6 == PutIf(LongNegSignificant(v, PyHex(<<0, 0, 0, 0, 0, 0, 255, 255>>)), s5, LowByte(PyShr(v, 16)))
        s7 == PutIf(LongNegSignificant(v, PyHex(<<0, 0, 0, 0, 0, 0, 0, 255>>)), s6, LowByte(PyShr(v, 8)))
        s8 == Put(s7, LowByte(v))
        value_len == s8.offset - b1 - 1
    IN [buf |-> [s8.buf EXCEPT ![b1] = LongNegIndicator(value_len)], offset |-> s8.offset]
  ELSE IF PyLt(Py(120), value) THEN
    LET v == LongPosAdjust(value)
        s1 == PutIf(LongPosSignificant(v, PyHex(<<255, 0, 0, 0, 0, 0, 0, 0>>)), s0, LowByte(PyShr(v, 56)))
        s2 == PutIf(LongPosSignificant(v, PyHex(<<255, 255, 0, 0, 0, 0, 0, 0>>)), s1, LowByte(PyShr(v, 48)))
        s3 == PutIf(LongPosSignificant(v, PyHex(<<255, 255, 255, 0, 0, 0, 0, 0>>)), s2, LowByte(PyShr(v, 40)))
        s4 == PutIf(LongPosSignificant(v, PyHex(<<255, 255, 255, 255, 0, 0, 0, 0>>)), s3, LowByte(PyShr(v, 32)))
        s5 == PutIf(LongPosSignificant(v, PyHex(<<255, 255, 255, 255, 255, 0, 0, 0>>)), s4, LowByte(PyShr(v, 24)))
        s6 == PutIf(LongPosSignificant(v, PyHex(<<255, 255, 255, 255, 255, 255, 0, 0>>)), s5, LowByte(PyShr(v, 16)))
        s7 == PutIf(LongPosSignificant(v, PyHex(<<255, 255, 255, 255, 255, 255, 255, 0>>)), s6, LowByte(PyShr(v, 8)))
        s8 == Put(s7, LowByte(v))
        value_len == s8.offset - b1 - 1
    IN [buf |-> [s8.buf EXCEPT ![b1] = LongPosIndicator(value_len)], offset |-> s8.offset]
  ELSE
    [buf |-> [s0.buf EXCEPT ![b1] = LongSingleByte(value)], offset |-> s0.offset]

\* A slip: the indicator byte itself left out of the length of a negative value.
GetReadSortedIntLengthNoIndicator(buf, offset) ==
  LET b1 == buf[offset] % 256
  IN IF b1 < 8 THEN 8 - b1
     ELSE IF b1 > 247 THEN 1 + b1 - 247
     ELSE 1

\* PackedInteger.get_read_sorted_int_length(buf, offset)
GetReadSortedIntLength(buf, offset) ==
  LET b1 == buf[offset] % 256
  IN IF b1 < 8 THEN 1 + 8 - b1
     ELSE IF b1 > 247 THEN 1 + b1 - 247
     ELSE 1

\* A slip: the length taken from the byte after the one at offset.
GetReadSortedLongLengthNext(buf, offset) == GetReadSortedIntLength(buf, offset + 1)

\* PackedInteger.get_read_sorted_long_length(buf, offset)
GetReadSortedLongLength(buf, offset) == GetReadSortedIntLength(buf, offset)

\* `value = (value << 8) | (buf[offset] & 0xFF); offset += 1`
Get(buf, r) ==
  [value |-> PyOr(PyShl(r.value, 8), Py(buf[r.offset] % 256)), offset |-> r.offset + 1]

\* `if cond: value = (value << 8) | (buf[offset] & 0xFF); offset += 1`
GetIf(cond, buf, r) == IF cond THEN Get(buf, r) ELSE r

\* PackedInteger.read_sorted_int(buf, offset): the value it returns, and the local offset
\* when it returns (it reads buf at every offset from its argument up to that one).
ReadSortedInt(buf, offset) ==
  LET b1 == buf[offset] % 256
      offset1 == offset + 1
      Multi(byte_len, negative) ==
        LET r0 == [value |-> IF negative THEN PyHex(<<255, 255, 255, 255>>) ELSE Py(0),
                   offset |-> offset1]
            r1 == GetIf(byte_len > 3, buf, r0)
            r2 == GetIf(byte_len > 2, buf, r1)
            r3 == GetIf(byte_len > 1, buf, r2)
            r4 == Get(buf, r3)
        IN [value |-> IF negative THEN PySub(r4.value, Py(119))
                                  ELSE PyAdd(r4.value, Py(121)),
            offset |-> r4.offset]
  IN IF b1 < 8 THEN Multi(8 - b1, TRUE)
     ELSE IF b1 > 247 THEN Multi(b1 - 247, FALSE)
     ELSE [value |-> Py(b1 - 127), offset |-> offset1]

\* PackedInteger.read_sorted_long(buf, offset): the value it returns, and the local offset
\* when it returns (it reads buf at every offset from its argument up to that one).
ReadSortedLong(buf, offset) ==
  LET b1 == buf[offset] % 256
      offset1 == offset + 1
      Multi(byte_len, negative) ==
        LET r0 == [value |-> IF negative THEN PyHex(<<255, 255, 255, 255, 255, 255, 255, 255>>) ELSE Py(0),
                   offset |-> offset1]
            r1 == GetIf(byte_len > 7, buf, r0)
            r2 == GetIf(byte_len > 6, buf, r1)
            r3 == GetIf(byte_len > 5, buf, r2)
            r4 == GetIf(byte_len > 4, buf, r3)
            r5 == GetIf(byte_len > 3, buf, r4)
            r6 == GetIf(byte_len > 2, buf, r5)
            r7 == GetIf(byte_len > 1, buf, r6)
            r8 == Get(buf, r7)
        IN [value |-> IF negative THEN PySub(r8.value, Py(119))
                                  ELSE PyAdd(r8.value, Py(121)),
            offset |-> r8.offset]
  IN IF b1 < 8 THEN Multi(8 - b1, TRUE)
     ELSE IF b1 > 247 THEN Multi(b1 - 247, FALSE)
     ELSE [value |-> Py(b1 - 127), offset |-> offset1]


\* ------------------------------------------------------- byte streams
\* A bytearray under the streams is a sequence of bytes; the Python index i of a
\* sequence of n items, possibly negative, names its item Index(n, i) + 1.
Index(n, i) == IF i < 0 THEN i + n ELSE i

ValidIndex(n, i) == Index(n, i) >= 0 /\ Index(n, i) < n

\* An optional argument: <<>> when it is left out (None), <<x>> when it is x.
Given(x) == <<x>>

NotGiven == <<>>

\* What a call returns besides the buffers it leaves: how it ended ("ok", or the
\* exception raised) and, when it returned, its result.
Outcome(status, c, result) == [status |-> status, content |-> c, result |-> result]

\* The n low bytes of the int v, most significant first: struct.pack('>h' | '>i' |
\* '>q', v), which raises struct.error when v is not a signed n-byte value.
Fits(v, n) ==
  LET top == [i \in 1..n |-> IF i = 1 THEN 128 ELSE 0]
      max == PySub(PyNeg(PySext(top)), Py(1))
  IN PyLe(PySext(top), v) /\ PyLe(v, max)

Pack(v, n) == [i \in 1..n |-> v[PyWidth - n + i]]

\* A slip: the bytes unpacked as an unsigned value ('>I' for '>i').
UnpackUnsigned(bytes) == PyHex(bytes)

\* struct.unpack('>h' | '>i' | '>q', bytes): the signed big-endian value.
Unpack(bytes) == PySext(bytes)

\* A float stands for its eight IEEE 754 bytes: struct.pack('>d', x) yields them
\* and struct.unpack('>d', bytes) the float they denote.
PackFloat(x) == x.bits

UnpackFloat(bytes) == [bits |-> bytes]

\* A slip: 255 taken off a byte above 127.
ReadByteLess255(c) ==
  IF c = <<>> THEN Outcome("IndexError", c, None)
  ELSE Outcome("ok", Tail(c), IF Head(c) > 127 THEN Head(c) - 255 ELSE Head(c))

\* A slip: an empty buffer read as a zero byte.
ReadBytePadded(c) ==
  IF c = <<>> THEN Outcome("ok", c, 0)
  ELSE Outcome("ok", Tail(c), IF Head(c) > 127 THEN Head(c) - 256 ELSE Head(c))

\* ByteInputStream.read_byte()
ReadByte(c) ==
  IF c = <<>> THEN Outcome("IndexError", c, None)
  ELSE Outcome("ok", Tail(c), IF Head(c) > 127 THEN Head(c) - 256 ELSE Head(c))

\* ByteInputStream.read_boolean()
ReadBoolean(c) ==
  LET r == ReadByte(c)
  IN IF r.status = "ok" THEN Outcome("ok", r.content, r.result # 0) ELSE r

\* A slip: `self._content.pop()`, the last byte, for `self._content.pop(0)`.
RECURSIVE ReadFullyFromBack(_, _, _, _)
ReadFullyFromBack(c, dst, index, end) ==
  IF index >= end THEN Outcome("ok", c, dst)
  ELSE IF c = <<>> THEN Outcome("IndexError", c, dst)
  ELSE IF ~ValidIndex(Len(dst), index) THEN Outcome("IndexError", SubSeq(c, 1, Len(c) - 1), dst)
  ELSE ReadFullyFromBack(SubSeq(c, 1, Len(c) - 1),
                         [dst EXCEPT ![Index(Len(dst), index) + 1] = c[Len(c)]],
                         index + 1, end)

\* The loop of read_fully from index on: `buf[index] = self._content.pop(0)` pops
\* first and stores next, so a store that fails has already taken its byte.
RECURSIVE ReadFullyFrom(_, _, _, _)
ReadFullyFrom(c, dst, index, end) ==
  IF index >= end THEN Outcome("ok", c, dst)
  ELSE IF c = <<>> THEN Outcome("IndexError", c, dst)
  ELSE IF ~ValidIndex(Len(dst), index) THEN Outcome("IndexError", Tail(c), dst)
  ELSE ReadFullyFrom(Tail(c), [dst EXCEPT ![Index(Len(dst), index) + 1] = Head(c)],
                     index + 1, end)

\* ByteInputStream.read_fully(buf, start, end): result is buf as the call leaves it.
ReadFully(c, dst, start, end) ==
  ReadFullyFrom(c, dst, start, IF end = NotGiven THEN Len(dst) ELSE end[1])

\* `buf = bytearray(n); self.read_fully(buf)`
ReadN(c, n) == ReadFully(c, [i \in 1..n |-> 0], 0, NotGiven)

\* ByteInputStream.read_float()
ReadFloat(c) ==
  LET r == ReadN(c, 8)
  IN IF r.status = "ok" THEN Outcome("ok", r.content, UnpackFloat(r.result))
     ELSE Outcome(r.status, r.content, None)

\* ByteInputStream.read_int()
ReadInt(c) ==
  LET r == ReadN(c, 4)
  IN IF r.status = "ok" THEN Outcome("ok", r.content, Unpack(r.result))
     ELSE Outcome(r.status, r.content, None)

\* ByteInputStream.read_long()
ReadLong(c) ==
  LET r == ReadN(c, 8)
  IN IF r.status = "ok" THEN Outcome("ok", r.content, Unpack(r.result))
     ELSE Outcome(r.status, r.content, None)

\* A slip: the buffer of read_int, bytearray(4), in read_short_int.
ReadShortIntOfFour(c) ==
  LET r == ReadN(c, 4)
  IN IF r.status = "ok" THEN Outcome("ok", r.content, Unpack(r.result))
     ELSE Outcome(r.status, r.content, None)

\* ByteInputStream.read_short_int()
ReadShortInt(c) ==
  LET r == ReadN(c, 2)
  IN IF r.status = "ok" THEN Outcome("ok", r.content, Unpack(r.result))
     ELSE Outcome(r.status, r.content, None)

\* ByteOutputStream.get_offset()
GetOffset(c) == Len(c)

\* The loop of write_bytearray from index on.
RECURSIVE WriteBytearrayFrom(_, _, _, _)
WriteBytearrayFrom(c, value, index, end) ==
  IF index >= end THEN Outcome("ok", c, None)
  ELSE IF ~ValidIndex(Len(value), index) THEN Outcome("IndexError", c, None)
  ELSE WriteBytearrayFrom(Append(c, value[Index(Len(value), index) + 1]), value,
                          index + 1, end)

\* ByteOutputStream.write_bytearray(value, start, end)
WriteBytearray(c, value, start, end) ==
  WriteBytearrayFrom(c, value, start, IF end = NotGiven THEN Len(value) ELSE end[1])

\* ByteOutputStream.write_value(value)
WriteValue(c, value) == WriteBytearray(c, value, 0, NotGiven)

\* ByteOutputStream.write_boolean(value): pack('?', value) is one byte, 1 or 0.
WriteBoolean(c, value) == WriteValue(c, <<IF value THEN 1 ELSE 0>>)

\* ByteOutputStream.write_byte(value): pack('B', value) wants 0 <= value <= 255.
WriteByte(c, value) ==
  IF value < 0 \/ value > 255 THEN Outcome("struct.error", c, None)
  ELSE WriteValue(c, <<value>>)

\* ByteOutputStream.write_float(value)
WriteFloat(c, value) == WriteValue(c, PackFloat(value))

\* ByteOutputStream.write_int(value)
WriteInt(c, value) ==
  IF ~Fits(value, 4) THEN Outcome("struct.error", c, None)
  ELSE WriteValue(c, Pack(value, 4))

\* A slip: the bytes of the value stored least significant first.
RECURSIVE PatchFromLeast(_, _, _, _)
PatchFromLeast(c, offset, val_b, index) ==
  IF index >= Len(val_b) THEN Outcome("ok", c, None)
  ELSE IF ~ValidIndex(Len(c), offset + index) THEN Outcome("IndexError", c, None)
  ELSE PatchFromLeast([c EXCEPT ![Index(Len(c), offset + index) + 1] =
                                   val_b[Len(val_b) - index]],
                      offset, val_b, index + 1)

\* The loop of write_int_at_offset from index on: `self._content[offset + index] =
\* val_b[index]`, a negative offset + index counting from the end of the buffer.
RECURSIVE PatchFrom(_, _, _, _)
PatchFrom(c, offset, val_b, index) ==
  IF index >= Len(val_b) THEN Outcome("ok", c, None)
  ELSE IF ~ValidIndex(Len(c), offset + index) THEN Outcome("IndexError", c, None)
  ELSE PatchFrom([c EXCEPT ![Index(Len(c), offset + index) + 1] = val_b[index + 1]],
                 offset, val_b, index + 1)

\* A slip: the bytes stored from offset + 1 on.
WriteIntAtOffsetShifted(c, offset, value) ==
  IF ~Fits(value, 4) THEN Outcome("struct.error", c, None)
  ELSE PatchFrom(c, offset + 1, Pack(value, 4), 0)

\* ByteOutputStream.write_int_at_offset(offset, value)
WriteIntAtOffset(c, offset, value) ==
  IF ~Fits(value, 4) THEN Outcome("struct.error", c, None)
  ELSE PatchFrom(c, offset, Pack(value, 4), 0)

\* A slip: the format of write_int, '>i', in write_short_int.
WriteShortIntAsInt(c, value) ==
  IF ~Fits(value, 2) THEN Outcome("struct.error", c, None)
  ELSE WriteValue(c, Pack(value, 4))

\* ByteOutputStream.write_short_int(value)
WriteShortInt(c, value) ==
  IF ~Fits(value, 2) THEN Outcome("struct.error", c, None)
  ELSE WriteValue(c, Pack(value, 2))

\* ------------------------------------------------------------ Memoize
\* A dict is a function on the keys it holds; `d[key] = value`.
EmptyDict == <<>>

DictSet(d, key, value) ==
  [k \in DOMAIN d \cup {key} |-> IF k = key THEN value ELSE d[k]]

\* Memoize(duration)
NewMemoize(duration) == [cache |-> EmptyDict, duration |-> duration]

\* Memoize.set(key, value), time() returning now
MemoizeSet(m, key, value, now) ==
  [m EXCEPT !.cache = DictSet(@, key, [value |-> value, time |-> now])]

\* A slip: an entry obsolete from the age `duration` on.
IsObsoleteAtDuration(m, entry, now) == now - entry.time >= m.duration

\* Memoize._is_obsolete(entry), time() returning now
IsObsolete(m, entry, now) == now - entry.time > m.duration

\* Memoize.get(key), time() returning now
MemoizeGet(m, key, now) ==
  IF key \in DOMAIN m.cache /\ ~IsObsolete(m, m.cache[key], now)
  THEN m.cache[key].value
  ELSE None

\* -------------------------------------------------- PreparedStatement
\* The objects live in a heap h: h.stmts the PreparedStatements, h.dicts the dicts
\* of bound variables; a statement's _bound_variables is None or the reference
\* [ref |-> i] to h.dicts[i]. A str is [str |-> s], a list [list |-> items].
Str(s) == [str |-> s]

IsStr(data) == "str" \in DOMAIN data

List(items) == [list |-> items]

\* PreparedStatement.__init__: the fields the calls below read or write.
NewStatement(topology_info, external_vars) ==
  [topology_info |-> topology_info,
   variables |-> external_vars,
   bound_variables |-> None,
   lock |-> None]

BoundVariables(h, s) == h.dicts[h.stmts[s].bound_variables.ref]

\* PreparedStatement.clear_variables()
ClearVariables(h, s) ==
  IF h.stmts[s].bound_variables # None
  THEN [h EXCEPT !.dicts[h.stmts[s].bound_variables.ref] = EmptyDict]
  ELSE h

\* A slip: the dict of bound variables handed on to the copy.
CopyStatementShared(h, s) ==
  [h EXCEPT !.stmts =
     Append(@, [NewStatement(h.stmts[s].topology_info, h.stmts[s].variables)
                  EXCEPT !.bound_variables = h.stmts[s].bound_variables])]

\* PreparedStatement.copy_statement(): the new statement is the last of h.stmts.
CopyStatement(h, s) ==
  [h EXCEPT !.stmts =
     Append(@, NewStatement(h.stmts[s].topology_info, h.stmts[s].variables))]

\* PreparedStatement.get_variables()
GetVariables(h, s) ==
  IF h.stmts[s].bound_variables = None THEN None ELSE BoundVariables(h, s)

\* PreparedStatement.get_variable_values(): `values = [0] * len(bound)`, then
\* `values[varid] = bound[key]` for each key, varid being self._variables.get(key).
GetVariableValues(h, s) ==
  IF h.stmts[s].bound_variables = None THEN [status |-> "ok", result |-> None]
  ELSE
    LET bound == BoundVariables(h, s)
        variables == h.stmts[s].variables
        n == Cardinality(DOMAIN bound)
    IN IF n = 0 THEN [status |-> "ok", result |-> List(<<>>)]
       ELSE IF variables = None THEN [status |-> "AttributeError", result |-> None]
       ELSE IF \E key \in DOMAIN bound : key \notin DOMAIN variables
         THEN [status |-> "TypeError", result |-> None]
       ELSE IF \E key \in DOMAIN bound : variables[key] >= n
         THEN [status |-> "IndexError", result |-> None]
       ELSE [status |-> "ok",
             result |-> List([i \in 1..n |->
                                IF \E key \in DOMAIN bound : variables[key] = i - 1
                                THEN bound[CHOOSE key \in DOMAIN bound :
                                             variables[key] = i - 1]
                                ELSE 0])]

\* CheckValue.check_str(data, name) raises
BadStr(data) == ~IsStr(data) \/ data.str = ""

\* PreparedStatement.set_variable(name, value): the heap it leaves, and "ok" or
\* the exception raised.
SetVariable(h, s, name, value) ==
  IF BadStr(name) THEN [h |-> h, status |-> "IllegalArgumentException"]
  ELSE
    LET h1 == IF h.stmts[s].bound_variables = None
              THEN [h EXCEPT !.dicts = Append(@, EmptyDict),
                             !.stmts[s].bound_variables = [ref |-> Len(h.dicts) + 1]]
              ELSE h
        variables == h.stmts[s].variables
    IN IF variables # None /\ name.str \notin DOMAIN variables
       THEN [h |-> h1, status |-> "IllegalArgumentException"]
       ELSE [h |-> [h1 EXCEPT !.dicts[h1.stmts[s].bound_variables.ref] =
                                DictSet(@, name.str, value)],
             status |-> "ok"]

\* A TopologyInfo is its sequence number: [seq_num |-> n].
\* `with self.lock:` of synchronized is entered when no thread holds the lock.
\* A slip: it is entered whoever holds the lock.
LockFreeAlways(h, s) == TRUE

LockFree(h, s) == h.stmts[s].lock = None

\* PreparedStatement.topology_seq_num(), its body
TopologySeqNum(h, s) ==
  IF h.stmts[s].topology_info = None THEN -1 ELSE h.stmts[s].topology_info.seq_num

\* ------------------------------------------------------------ the inputs
\* The least and the greatest signed 32-bit and 64-bit integers.
IntMin == PySext(<<128, 0, 0, 0>>)

IntMax == PyHex(<<127, 255, 255, 255>>)

LongMin == PySext(<<128, 0, 0, 0, 0, 0, 0, 0>>)

LongMax == PyHex(<<127, 255, 255, 255, 255, 255, 255, 255>>)

InRange(lo, v, hi) == PyLe(lo, v) /\ PyLe(v, hi)

\* Adjusted magnitudes at which the number of significant bytes, or the top bit of
\* the leading significant byte, changes.
IntPosBases ==
  { PyHex(b) : b \in { <<1, 0>>,
                      <<1, 0, 0>>,
                      <<1, 0, 0, 0>>,
                      <<0, 128>>,
                      <<0, 128, 0>>,
                      <<0, 128, 0, 0>> } }

IntNegBases ==
  { PySext(b) : b \in { <<255, 0>>,
                       <<255, 0, 0>>,
                       <<255, 0, 0, 0>>,
                       <<255, 128>>,
                       <<255, 128, 0>>,
                       <<255, 128, 0, 0>> } }

LongPosBases ==
  { PyHex(b) : b \in { <<1, 0>>,
                      <<1, 0, 0>>,
                      <<1, 0, 0, 0>>,
                      <<1, 0, 0, 0, 0>>,
                      <<1, 0, 0, 0, 0, 0>>,
                      <<1, 0, 0, 0, 0, 0, 0>>,
                      <<1, 0, 0, 0, 0, 0, 0, 0>>,
                      <<0, 128>>,
                      <<0, 128, 0>>,
                      <<0, 128, 0, 0>>,
                      <<0, 128, 0, 0, 0>>,
                      <<0, 128, 0, 0, 0, 0>>,
                      <<0, 128, 0, 0, 0, 0, 0>>,
                      <<0, 128, 0, 0, 0, 0, 0, 0>> } }

LongNegBases ==
  { PySext(b) : b \in { <<255, 0>>,
                       <<255, 0, 0>>,
                       <<255, 0, 0, 0>>,
                       <<255, 0, 0, 0, 0>>,
                       <<255, 0, 0, 0, 0, 0>>,
                       <<255, 0, 0, 0, 0, 0, 0>>,
                       <<255, 0, 0, 0, 0, 0, 0, 0>>,
                       <<255, 128>>,
                       <<255, 128, 0>>,
                       <<255, 128, 0, 0>>,
                       <<255, 128, 0, 0, 0>>,
                       <<255, 128, 0, 0, 0, 0>>,
                       <<255, 128, 0, 0, 0, 0, 0>>,
                       <<255, 128, 0, 0, 0, 0, 0, 0>> } }

Around(anchors) ==
  { PyAdd(a, Py(e)) : a \in anchors, e \in (0 - MaxDelta)..MaxDelta }

IntAnchors ==
  {Py(-120), Py(0), Py(121), IntMin, IntMax}
    \cup { PyAdd(b, Py(121)) : b \in IntPosBases }
    \cup { PyAdd(b, Py(-120)) : b \in IntNegBases }

LongAnchors ==
  {Py(-120), Py(0), Py(121), IntMin, IntMax, LongMin, LongMax}
    \cup { PyAdd(b, Py(121)) : b \in LongPosBases }
    \cup { PyAdd(b, Py(-120)) : b \in LongNegBases }

\* The sampled values of each width: those within MaxDelta of an anchor.
IntSamples == { v \in Around(IntAnchors) : InRange(IntMin, v, IntMax) }

LongSamples == { v \in Around(LongAnchors) : InRange(LongMin, v, LongMax) }

\* Every value of the single-byte band.
Band == { Py(n) : n \in -119..120 }

Samples(op) == IF op = "write_sorted_int" THEN IntSamples ELSE LongSamples

Values(op) == Samples(op) \cup Band

WriteOps == {"write_sorted_int", "write_sorted_long"}

\* The bytes a fresh buffer is filled with.
FillBytes == {0, 165}

BufLen == MaxOffset + MAX_LONG_LENGTH

\* ------------------------------------------------------------- the state
VARIABLES
  buf,     \* the bytearray the calls are made on, indexed from 0
  wcall,   \* the write call made on buf: its name, arguments and returned offset
  len,     \* what get_read_sorted_*_length(buf, wcall.offset) returned
  rd,      \* what read_sorted_*(buf, wcall.offset) returned, and the offset it reached
  other,   \* a second bytearray and the call made on it
  sq,      \* a run of consecutive write_sorted_int calls on buf, and the loop reading it
  content, \* the bytearray a ByteInputStream and a ByteOutputStream wrap
  calls,   \* the stream calls made so far, each with its arguments and outcome
  memo,    \* a Memoize, the clock it reads, and the calls made on it
  ps       \* the PreparedStatements, their dicts, and the threads calling them

vars == <<buf, wcall, len, rd, other, sq, content, calls, memo, ps>>

\* The variables of the byte streams, and of a run of packed integers.
streamVars == <<content, calls>>

\* No stream is in use, no run is under way.
NoStream == content = <<>> /\ calls = <<>>

NoRun == sq = None

\* No Memoize and no PreparedStatement is in use.
NoCache == memo = None

NoStatement == ps = None

Write(op, b, offset, value) ==
  IF op = "write_sorted_int" THEN WriteSortedInt(b, offset, value)
  ELSE WriteSortedLong(b, offset, value)

\* The bytes a write call wrote, in order: buf[offset .. ret - 1].
Encoded(b, c) == [i \in 1..(c.ret - c.offset) |-> b[c.offset + i - 1]]

\* A caller makes one write call on a fresh buffer, at an offset with enough room.
Init ==
  /\ buf \in { [i \in 0..(BufLen - 1) |-> f] : f \in FillBytes }
  /\ wcall = None
  /\ len = None
  /\ rd = None
  /\ other = None
  /\ NoRun
  /\ NoStream
  /\ NoCache
  /\ NoStatement

CallWrite ==
  /\ wcall = None
  /\ \E op \in WriteOps, offset \in 0..MaxOffset :
       \E value \in Values(op) :
         LET w == Write(op, buf, offset, value)
         IN /\ buf' = w.buf
            /\ wcall' = [op |-> op, offset |-> offset, value |-> value, ret |-> w.offset]
  /\ UNCHANGED <<len, rd, other, sq, content, calls, memo, ps>>

CallGetLength ==
  /\ wcall # None
  /\ len = None
  /\ len' = [ret |-> IF wcall.op = "write_sorted_int"
                        THEN GetReadSortedIntLength(buf, wcall.offset)
                        ELSE GetReadSortedLongLength(buf, wcall.offset)]
  /\ UNCHANGED <<buf, wcall, rd, other, sq, content, calls, memo, ps>>

CallRead ==
  /\ wcall # None
  /\ rd = None
  /\ rd' = IF wcall.op = "write_sorted_int"
             THEN ReadSortedInt(buf, wcall.offset)
             ELSE ReadSortedLong(buf, wcall.offset)
  /\ UNCHANGED <<buf, wcall, len, other, sq, content, calls, memo, ps>>

Next == CallWrite \/ CallGetLength \/ CallRead

Spec == Init /\ [][Next]_vars

\* Two values of one width are each written to a buffer of their own, at offset 0.
OrderInit ==
  /\ buf = [i \in 0..(BufLen - 1) |-> 0]
  /\ wcall = None
  /\ len = None
  /\ rd = None
  /\ other = None
  /\ NoRun
  /\ NoStream
  /\ NoCache
  /\ NoStatement

WriteFirst ==
  /\ wcall = None
  /\ \E op \in WriteOps :
       \E value \in Samples(op) :
         LET w == Write(op, buf, 0, value)
         IN /\ buf' = w.buf
            /\ wcall' = [op |-> op, offset |-> 0, value |-> value, ret |-> w.offset]
  /\ UNCHANGED <<len, rd, other, sq, content, calls, memo, ps>>

WriteSecond ==
  /\ wcall # None
  /\ other = None
  /\ \E value \in Samples(wcall.op) :
       LET w == Write(wcall.op, [i \in 0..(BufLen - 1) |-> 0], 0, value)
       IN other' = [buf |-> w.buf,
                    call |-> [op |-> wcall.op, offset |-> 0, value |-> value, ret |-> w.offset]]
  /\ UNCHANGED <<buf, wcall, len, rd, sq, content, calls, memo, ps>>

OrderNext == WriteFirst \/ WriteSecond

SpecOrder == OrderInit /\ [][OrderNext]_vars

\* A run: up to MaxSeq 32-bit values are written one after the other into one
\* buffer, each at the offset the write before it returned; then a loop reads
\* them back from offset 0, moving on by the probed length.
SeqValues == {Py(-120), Py(-119), Py(0), Py(120), PyAdd(PyHex(<<1, 0>>), Py(121)), IntMin, IntMax}

SeqBufLen == MaxSeq * MAX_LENGTH

SeqInit ==
  /\ buf = [i \in 0..(SeqBufLen - 1) |-> 0]
  /\ wcall = None
  /\ len = None
  /\ rd = None
  /\ other = None
  /\ sq = [values |-> <<>>, woff |-> 0, decoded |-> <<>>, roff |-> 0]
  /\ NoStream
  /\ NoCache
  /\ NoStatement

SeqWrite ==
  /\ sq.decoded = <<>>
  /\ Len(sq.values) < MaxSeq
  /\ \E value \in SeqValues :
       LET w == WriteSortedInt(buf, sq.woff, value)
       IN /\ buf' = w.buf
          /\ sq' = [sq EXCEPT !.values = Append(@, value), !.woff = w.offset]
  /\ UNCHANGED <<wcall, len, rd, other, content, calls, memo, ps>>

SeqRead ==
  /\ Len(sq.decoded) < Len(sq.values)
  /\ sq' = [sq EXCEPT !.decoded = Append(@, ReadSortedInt(buf, sq.roff).value),
                      !.roff = @ + GetReadSortedIntLength(buf, sq.roff)]
  /\ UNCHANGED <<buf, wcall, len, rd, other, content, calls, memo, ps>>

SeqNext == SeqWrite \/ SeqRead

SpecSeq == SeqInit /\ [][SeqNext]_vars

\* The length probes, on a buffer whose bytes are arbitrary, and then on a second
\* buffer that agrees with the first at the probed offset only.
ProbeOps == {"get_read_sorted_int_length", "get_read_sorted_long_length"}

GetLength(op, b, offset) ==
  IF op = "get_read_sorted_int_length" THEN GetReadSortedIntLength(b, offset)
  ELSE GetReadSortedLongLength(b, offset)

ProbeInit ==
  /\ buf \in { [i \in 0..(BufLen - 1) |-> (first + 37 * i) % 256] : first \in Byte }
  /\ wcall = None
  /\ len = None
  /\ rd = None
  /\ other = None
  /\ NoRun
  /\ NoStream
  /\ NoCache
  /\ NoStatement

Probe ==
  /\ len = None
  /\ \E op \in ProbeOps, offset \in 0..MaxOffset :
       len' = [op |-> op, offset |-> offset, before |-> buf, ret |-> GetLength(op, buf, offset)]
  /\ UNCHANGED <<buf, wcall, rd, other, sq, content, calls, memo, ps>>

ProbeOther ==
  /\ len # None
  /\ other = None
  /\ \E f \in FillBytes :
       LET b2 == [i \in 0..(BufLen - 1) |-> IF i = len.offset THEN buf[i] ELSE f]
       IN other' = [buf |-> b2, ret |-> GetLength(len.op, b2, len.offset)]
  /\ UNCHANGED <<buf, wcall, len, rd, sq, content, calls, memo, ps>>

ProbeNext == Probe \/ ProbeOther

SpecProbe == ProbeInit /\ [][ProbeNext]_vars


\* One call on a stream, as the history `calls` keeps it: the buffer it found,
\* how it ended and what it returned.
Call(op, args, r) ==
  [op |-> op, args |-> args, before |-> content, status |-> r.status, result |-> r.result]

Do(op, args, r) ==
  /\ calls' = Append(calls, Call(op, args, r))
  /\ content' = r.content
  /\ UNCHANGED <<buf, wcall, len, rd, other, sq, memo, ps>>

NoCodec ==
  /\ buf = <<>>
  /\ wcall = None
  /\ len = None
  /\ rd = None
  /\ other = None
  /\ NoRun
  /\ NoCache
  /\ NoStatement

\* The bytes a stream is constructed on: every length up to max, zero and
\* bytes above 127 among them.
StreamSeeds == {173, 200}

Contents(max) ==
  { [i \in 1..n |-> (first + 83 * i) % 256] : n \in 0..max, first \in StreamSeeds }

\* The destination and the (start, end) of the read_fully calls: the whole of it,
\* a slice, an empty range, a range from a negative start, a range past its end.
Destination == <<9, 9, 9>>

ReadFullyArgs ==
  {<<0, NotGiven>>, <<1, Given(3)>>, <<2, Given(1)>>, <<-1, Given(1)>>, <<0, Given(4)>>}

\* ByteInputStream(content)
ReaderInit ==
  /\ content \in Contents(MaxInit)
  /\ calls = <<>>
  /\ NoCodec

CallReadBoolean ==
  /\ Len(calls) < MaxReads
  /\ Do("read_boolean", <<>>, ReadBoolean(content))

CallReadByte ==
  /\ Len(calls) < MaxReads
  /\ Do("read_byte", <<>>, ReadByte(content))

CallReadFloat ==
  /\ Len(calls) < MaxReads
  /\ Do("read_float", <<>>, ReadFloat(content))

CallReadFully ==
  /\ Len(calls) < MaxReads
  /\ \E a \in ReadFullyArgs :
       Do("read_fully", <<Destination, a[1], a[2]>>,
          ReadFully(content, Destination, a[1], a[2]))

CallReadInt ==
  /\ Len(calls) < MaxReads
  /\ Do("read_int", <<>>, ReadInt(content))

CallReadLong ==
  /\ Len(calls) < MaxReads
  /\ Do("read_long", <<>>, ReadLong(content))

CallReadShortInt ==
  /\ Len(calls) < MaxReads
  /\ Do("read_short_int", <<>>, ReadShortInt(content))

ReaderNext ==
  \/ CallReadBoolean
  \/ CallReadByte
  \/ CallReadFloat
  \/ CallReadFully
  \/ CallReadInt
  \/ CallReadLong
  \/ CallReadShortInt

SpecReader == ReaderInit /\ [][ReaderNext]_vars

\* The arguments of the writes: values that fit their format and values that do
\* not, ranges of write_bytearray as those of read_fully, offsets of
\* write_int_at_offset inside the buffer, across its end, and negative.
ByteArgs == {200, 256}

ShortArgs == {PySext(<<128, 1>>), PyHex(<<128, 0>>)}

IntArgs == {PySext(<<128, 255, 127, 1>>), PyAdd(IntMax, Py(1))}

FloatArgs == {[bits |-> <<63, 248, 0, 0, 0, 0, 0, 0>>]}

Source == <<9, 8, 7>>

WriteBytearrayArgs ==
  {<<0, NotGiven>>, <<2, Given(1)>>, <<-1, Given(1)>>, <<1, Given(5)>>}

PatchArgs ==
  {<<o, PyHex(<<10, 11, 12, 13>>)>> : o \in {-7, -2, 0, 1, 3}}
    \cup {<<0, PyAdd(IntMax, Py(1))>>}

\* ByteOutputStream(content)
WriterInit ==
  /\ content \in Contents(MaxHeld)
  /\ calls = <<>>
  /\ NoCodec

CallGetOffset ==
  /\ Len(calls) < MaxWrites
  /\ Do("get_offset", <<>>, Outcome("ok", content, GetOffset(content)))

CallWriteBoolean ==
  /\ Len(calls) < MaxWrites
  /\ \E value \in BOOLEAN :
       Do("write_boolean", <<value>>, WriteBoolean(content, value))

CallWriteByte ==
  /\ Len(calls) < MaxWrites
  /\ \E value \in ByteArgs :
       Do("write_byte", <<value>>, WriteByte(content, value))

CallWriteBytearray ==
  /\ Len(calls) < MaxWrites
  /\ \E a \in WriteBytearrayArgs :
       Do("write_bytearray", <<Source, a[1], a[2]>>,
          WriteBytearray(content, Source, a[1], a[2]))

CallWriteFloat ==
  /\ Len(calls) < MaxWrites
  /\ \E value \in FloatArgs :
       Do("write_float", <<value>>, WriteFloat(content, value))

CallWriteInt ==
  /\ Len(calls) < MaxWrites
  /\ \E value \in IntArgs :
       Do("write_int", <<value>>, WriteInt(content, value))

CallWriteIntAtOffset ==
  /\ Len(calls) < MaxWrites
  /\ \E a \in PatchArgs :
       Do("write_int_at_offset", a, WriteIntAtOffset(content, a[1], a[2]))

CallWriteShortInt ==
  /\ Len(calls) < MaxWrites
  /\ \E value \in ShortArgs :
       Do("write_short_int", <<value>>, WriteShortInt(content, value))

CallWriteValue ==
  /\ Len(calls) < MaxWrites
  /\ Do("write_value", <<Source>>, WriteValue(content, Source))

WriterNext ==
  \/ CallGetOffset
  \/ CallWriteBoolean
  \/ CallWriteByte
  \/ CallWriteBytearray
  \/ CallWriteFloat
  \/ CallWriteInt
  \/ CallWriteIntAtOffset
  \/ CallWriteShortInt
  \/ CallWriteValue

SpecWriter == WriterInit /\ [][WriterNext]_vars

\* A value written to a fresh ByteOutputStream, and the bytes then read by a
\* ByteInputStream on the same bytearray.
ShortMin == PySext(<<128, 0>>)

ShortMax == PyHex(<<127, 255>>)

ShortSamples ==
  { v \in Around({ShortMin, Py(-256), Py(-128), Py(0), Py(128), Py(256),
                  PyHex(<<18, 52>>), ShortMax}) : InRange(ShortMin, v, ShortMax) }

ByteSamples == {0, 1, 2, 128, 255}

PairInit ==
  /\ content = <<>>
  /\ calls = <<>>
  /\ NoCodec

PairWriteBoolean ==
  /\ calls = <<>>
  /\ \E value \in BOOLEAN :
       Do("write_boolean", <<value>>, WriteBoolean(content, value))

PairWriteByte ==
  /\ calls = <<>>
  /\ \E value \in ByteSamples :
       Do("write_byte", <<value>>, WriteByte(content, value))

PairWriteInt ==
  /\ calls = <<>>
  /\ \E value \in IntSamples \cup IntArgs :
       Do("write_int", <<value>>, WriteInt(content, value))

PairWriteShortInt ==
  /\ calls = <<>>
  /\ \E value \in ShortSamples :
       Do("write_short_int", <<value>>, WriteShortInt(content, value))

PairRead ==
  /\ Len(calls) = 1
  /\ calls[1].status = "ok"
  /\ \/ Do("read_boolean", <<>>, ReadBoolean(content))
     \/ Do("read_int", <<>>, ReadInt(content))
     \/ Do("read_short_int", <<>>, ReadShortInt(content))

PairNext ==
  \/ PairWriteBoolean
  \/ PairWriteByte
  \/ PairWriteInt
  \/ PairWriteShortInt
  \/ PairRead

SpecPair == PairInit /\ [][PairNext]_vars

\* A length prefix patched in: after some writes the caller keeps p =
\* get_offset(), reserves the field with write_int, appends the payload, and
\* stores the field with write_int_at_offset(p, n).
FieldArgs == {Py(0), Py(-1)}

PayloadArgs ==
  {<<"write_boolean", TRUE>>, <<"write_byte", 200>>,
   <<"write_short_int", PySext(<<128, 1>>)>>, <<"write_int", PyHex(<<1, 2, 3, 4>>)>>,
   <<"write_value", Source>>}

LengthArgs == {Py(0), PyHex(<<10, 11, 12, 13>>), IntMin, IntMax}

WriteOf(c, a) ==
  CASE a[1] = "write_boolean" -> WriteBoolean(c, a[2])
    [] a[1] = "write_byte" -> WriteByte(c, a[2])
    [] a[1] = "write_short_int" -> WriteShortInt(c, a[2])
    [] a[1] = "write_int" -> WriteInt(c, a[2])
    [] a[1] = "write_value" -> WriteValue(c, a[2])

\* The position in `calls` of the get_offset call, 0 before it is made, and of
\* the write_int_at_offset call.
Marked == IF \E i \in 1..Len(calls) : calls[i].op = "get_offset"
          THEN CHOOSE i \in 1..Len(calls) : calls[i].op = "get_offset"
          ELSE 0

Patched == calls # <<>> /\ calls[Len(calls)].op = "write_int_at_offset"

PatchInit ==
  /\ content = <<>>
  /\ calls = <<>>
  /\ NoCodec

PatchEarlier ==
  /\ Marked = 0
  /\ Len(calls) < MaxWrites
  /\ \E a \in PayloadArgs : Do(a[1], <<a[2]>>, WriteOf(content, a))

PatchMark ==
  /\ Marked = 0
  /\ Do("get_offset", <<>>, Outcome("ok", content, GetOffset(content)))

PatchReserve ==
  /\ Marked # 0
  /\ Marked = Len(calls)
  /\ \E value \in FieldArgs : Do("write_int", <<value>>, WriteInt(content, value))

PatchPayload ==
  /\ Marked # 0
  /\ Marked < Len(calls)
  /\ ~Patched
  /\ Len(calls) < Marked + 1 + MaxWrites
  /\ \E a \in PayloadArgs : Do(a[1], <<a[2]>>, WriteOf(content, a))

PatchBack ==
  /\ Marked # 0
  /\ Marked < Len(calls)
  /\ ~Patched
  /\ \E n \in LengthArgs :
       Do("write_int_at_offset", <<calls[Marked].result, n>>,
          WriteIntAtOffset(content, calls[Marked].result, n))

PatchNext ==
  \/ PatchEarlier
  \/ PatchMark
  \/ PatchReserve
  \/ PatchPayload
  \/ PatchBack

SpecPatch == PatchInit /\ [][PatchNext]_vars

\* A ByteInputStream on one byte, every byte in turn, read by read_byte or by
\* read_boolean.
ByteInit ==
  /\ content \in { <<u>> : u \in Byte }
  /\ calls = <<>>
  /\ NoCodec

ByteNext == CallReadByte \/ CallReadBoolean

SpecByte == ByteInit /\ [][ByteNext]_vars

\* One value of the 32-bit range is written by write_sorted_int to buf and by
\* write_sorted_long to a second buffer, both at offset 0; the bytes of
\* write_sorted_int are then read by read_sorted_int and by read_sorted_long.
WidthInit == OrderInit

WidthWrite ==
  /\ wcall = None
  /\ \E value \in IntSamples \cup Band :
       LET w == WriteSortedInt(buf, 0, value)
           l == WriteSortedLong([i \in 0..(BufLen - 1) |-> 0], 0, value)
       IN /\ buf' = w.buf
          /\ wcall' = [op |-> "write_sorted_int", offset |-> 0, value |-> value, ret |-> w.offset]
          /\ other' = [buf |-> l.buf,
                       call |-> [op |-> "write_sorted_long", offset |-> 0, value |-> value,
                                 ret |-> l.offset]]
  /\ UNCHANGED <<len, rd, sq, content, calls, memo, ps>>

WidthRead ==
  /\ wcall # None
  /\ rd = None
  /\ rd' = [int |-> ReadSortedInt(buf, 0), long |-> ReadSortedLong(buf, 0)]
  /\ UNCHANGED <<buf, wcall, len, other, sq, content, calls, memo, ps>>

WidthNext == WidthWrite \/ WidthRead

SpecWidth == WidthInit /\ [][WidthNext]_vars

\* One ByteOutputStream and one ByteInputStream on the same, at first empty,
\* bytearray: whole appends and whole reads in any order, write_int_at_offset
\* left out.
SharedInit ==
  /\ content = <<>>
  /\ calls = <<>>
  /\ NoCodec

SharedWrite ==
  /\ Len(calls) < MaxShared
  /\ \/ \E a \in PayloadArgs : Do(a[1], <<a[2]>>, WriteOf(content, a))
     \/ \E value \in FloatArgs : Do("write_float", <<value>>, WriteFloat(content, value))
     \/ \E a \in WriteBytearrayArgs :
          Do("write_bytearray", <<Source, a[1], a[2]>>,
             WriteBytearray(content, Source, a[1], a[2]))

SharedRead ==
  /\ Len(calls) < MaxShared
  /\ \/ Do("read_boolean", <<>>, ReadBoolean(content))
     \/ Do("read_byte", <<>>, ReadByte(content))
     \/ Do("read_float", <<>>, ReadFloat(content))
     \/ \E a \in ReadFullyArgs :
          Do("read_fully", <<Destination, a[1], a[2]>>,
             ReadFully(content, Destination, a[1], a[2]))
     \/ Do("read_int", <<>>, ReadInt(content))
     \/ Do("read_long", <<>>, ReadLong(content))
     \/ Do("read_short_int", <<>>, ReadShortInt(content))

SharedNext == SharedWrite \/ SharedRead

SpecShared == SharedInit /\ [][SharedNext]_vars

\* A Memoize and its callers. memo.m is the object, memo.now the last value
\* time() returned, which the next is not below, and memo.log the calls made:
\* what time() returned in each, the cache each found, what each get returned.
Durations == {0, 2}

MemoKeys == {"k1", "k2"}

MemoValues == {[token |-> "t1"], [token |-> "t2"]}

MemoInit ==
  /\ memo \in { [m |-> NewMemoize(d), now |-> 0, log |-> <<>>] : d \in Durations }
  /\ NoStream
  /\ NoStatement
  /\ buf = <<>>
  /\ wcall = None
  /\ len = None
  /\ rd = None
  /\ other = None
  /\ NoRun

CallSet ==
  /\ Len(memo.log) < MaxMemoCalls
  /\ \E key \in MemoKeys, value \in MemoValues, now \in memo.now..MaxTime :
       memo' = [m |-> MemoizeSet(memo.m, key, value, now),
                now |-> now,
                log |-> Append(memo.log, [op |-> "set", key |-> key, value |-> value,
                                          at |-> now, before |-> memo.m.cache,
                                          result |-> None])]
  /\ UNCHANGED <<buf, wcall, len, rd, other, sq, content, calls, ps>>

CallGet ==
  /\ Len(memo.log) < MaxMemoCalls
  /\ \E key \in MemoKeys, now \in memo.now..MaxTime :
       memo' = [m |-> memo.m,
                now |-> now,
                log |-> Append(memo.log, [op |-> "get", key |-> key, value |-> None,
                                          at |-> now, before |-> memo.m.cache,
                                          result |-> MemoizeGet(memo.m, key, now)])]
  /\ UNCHANGED <<buf, wcall, len, rd, other, sq, content, calls, ps>>

MemoNext == CallSet \/ CallGet

SpecMemo == MemoInit /\ [][MemoNext]_vars

\* PreparedStatements and their caller. ps.stmts[1] is the statement a prepare
\* returned, the others are copies; ps.last is the last call made: its
\* statement, arguments, outcome, and the heap it found.
\* The external variables of the query: the names "a" and "b", with ids 0 and 1.
ExternalVars == {[k \in {"a", "b"} |-> IF k = "a" THEN 0 ELSE 1]}

VariableNames == {Str("a"), Str("b"), Str("zz"), Str(""), None}

VariableValues == {5, 7}

Heap(h) == [stmts |-> h.stmts, dicts |-> h.dicts]

Made(op, s, args, status, result, h) ==
  [ps EXCEPT !.stmts = h.stmts,
             !.dicts = h.dicts,
             !.last = [op |-> op, stmt |-> s, args |-> args, status |-> status,
                       result |-> result, before |-> Heap(ps)]]

StmtInit ==
  /\ ps \in { [stmts |-> <<NewStatement(None, external_vars)>>,
               dicts |-> <<>>,
               last |-> None,
               threads |-> <<>>,
               passed |-> {},
               first |-> None] : external_vars \in ExternalVars }
  /\ NoStream
  /\ NoCache
  /\ buf = <<>>
  /\ wcall = None
  /\ len = None
  /\ rd = None
  /\ other = None
  /\ NoRun

CallClearVariables ==
  /\ \E s \in 1..Len(ps.stmts) :
       ps' = Made("clear_variables", s, <<>>, "ok", None, ClearVariables(ps, s))
  /\ UNCHANGED <<buf, wcall, len, rd, other, sq, content, calls, memo>>

CallCopyStatement ==
  /\ Len(ps.stmts) < MaxStatements
  /\ \E s \in 1..Len(ps.stmts) :
       ps' = Made("copy_statement", s, <<>>, "ok", Len(ps.stmts) + 1, CopyStatement(ps, s))
  /\ UNCHANGED <<buf, wcall, len, rd, other, sq, content, calls, memo>>

CallGetVariableValues ==
  /\ \E s \in 1..Len(ps.stmts) :
       LET r == GetVariableValues(ps, s)
       IN ps' = Made("get_variable_values", s, <<>>, r.status, r.result, ps)
  /\ UNCHANGED <<buf, wcall, len, rd, other, sq, content, calls, memo>>

CallGetVariables ==
  /\ \E s \in 1..Len(ps.stmts) :
       ps' = Made("get_variables", s, <<>>, "ok", GetVariables(ps, s), ps)
  /\ UNCHANGED <<buf, wcall, len, rd, other, sq, content, calls, memo>>

CallSetVariable ==
  /\ \E s \in 1..Len(ps.stmts), name \in VariableNames, value \in VariableValues :
       LET r == SetVariable(ps, s, name, value)
       IN ps' = Made("set_variable", s, <<name, value>>, r.status, None, r.h)
  /\ UNCHANGED <<buf, wcall, len, rd, other, sq, content, calls, memo>>

StmtNext ==
  \/ CallClearVariables
  \/ CallCopyStatement
  \/ CallGetVariableValues
  \/ CallGetVariables
  \/ CallSetVariable

SpecStmt == StmtInit /\ [][StmtNext]_vars

\* Threads on one PreparedStatement, ps.stmts[1]. ps.threads[t] is where thread
\* t is in the call it is making (pc, "idle" between calls), the argument of the
\* call, and what its last topology_seq_num() returned; ps.first is the topology
\* the statement was constructed with, ps.passed the sequence numbers of the
\* topologies passed to set_topology_info so far.
Threads == 1..NumThreads

TopologyArgs == {None} \cup { [seq_num |-> n] : n \in 0..MaxSeqNum }

Idle == [pc |-> "idle", arg |-> None, result |-> None]

At(t, pc) == ps.threads[t].pc = pc

Goto(t, pc) == [ps EXCEPT !.threads[t].pc = pc]

TopoInit ==
  /\ ps \in { [stmts |-> <<NewStatement(topology_info, None)>>,
               dicts |-> <<>>,
               last |-> None,
               threads |-> [t \in Threads |-> Idle],
               passed |-> {},
               first |-> topology_info] : topology_info \in {None, [seq_num |-> 1]} }
  /\ NoStream
  /\ NoCache
  /\ buf = <<>>
  /\ wcall = None
  /\ len = None
  /\ rd = None
  /\ other = None
  /\ NoRun

\* set_topology_info(topology_info) is called and the wrapper takes the lock.
SetTopologyInfoEnter(t) ==
  /\ At(t, "idle")
  /\ LockFree(ps, 1)
  /\ \E topology_info \in TopologyArgs :
       ps' = [ps EXCEPT !.stmts[1].lock = [holder |-> t],
                        !.threads[t].pc = "if_arg_none",
                        !.threads[t].arg = topology_info,
                        !.passed = IF topology_info = None THEN @
                                   ELSE @ \cup {topology_info.seq_num}]

\* `if topology_info is None: return`
SetTopologyInfoTestArg(t) ==
  /\ At(t, "if_arg_none")
  /\ ps' = Goto(t, IF ps.threads[t].arg = None THEN "exit" ELSE "if_self_none")

\* `if self._topology_info is None:`
SetTopologyInfoTestSelf(t) ==
  /\ At(t, "if_self_none")
  /\ ps' = Goto(t, IF ps.stmts[1].topology_info = None THEN "set_first" ELSE "if_older")

\* `self._topology_info = topology_info; return`
SetTopologyInfoSetFirst(t) ==
  /\ At(t, "set_first")
  /\ ps' = [ps EXCEPT !.stmts[1].topology_info = ps.threads[t].arg,
                      !.threads[t].pc = "exit"]

\* `if self._topology_info.get_seq_num() < topology_info.get_seq_num():`
SetTopologyInfoCompare(t) ==
  /\ At(t, "if_older")
  /\ ps' = Goto(t, IF ps.stmts[1].topology_info.seq_num < ps.threads[t].arg.seq_num
                   THEN "set_newer" ELSE "exit")

\* `self._topology_info = topology_info`
SetTopologyInfoSetNewer(t) ==
  /\ At(t, "set_newer")
  /\ ps' = [ps EXCEPT !.stmts[1].topology_info = ps.threads[t].arg,
                      !.threads[t].pc = "exit"]

\* topology_seq_num() is called and the wrapper takes the lock.
TopologySeqNumEnter(t) ==
  /\ At(t, "idle")
  /\ LockFree(ps, 1)
  /\ ps' = [ps EXCEPT !.stmts[1].lock = [holder |-> t],
                      !.threads[t].pc = "seq_num"]

TopologySeqNumReturn(t) ==
  /\ At(t, "seq_num")
  /\ ps' = [ps EXCEPT !.threads[t].result = [value |-> TopologySeqNum(ps, 1)],
                      !.threads[t].pc = "exit"]

\* The wrapper's `with` block is left: the lock is released, the call returns.
SynchronizedExit(t) ==
  /\ At(t, "exit")
  /\ ps' = [ps EXCEPT !.stmts[1].lock = None,
                      !.threads[t].pc = "idle",
                      !.threads[t].arg = None]

TopoNext ==
  /\ \E t \in Threads :
       \/ SetTopologyInfoEnter(t)
       \/ SetTopologyInfoTestArg(t)
       \/ SetTopologyInfoTestSelf(t)
       \/ SetTopologyInfoSetFirst(t)
       \/ SetTopologyInfoCompare(t)
       \/ SetTopologyInfoSetNewer(t)
       \/ TopologySeqNumEnter(t)
       \/ TopologySeqNumReturn(t)
       \/ SynchronizedExit(t)
  /\ UNCHANGED <<buf, wcall, len, rd, other, sq, content, calls, memo>>

SpecTopo == TopoInit /\ [][TopoNext]_vars

\* ------------------------------------------------------------- the claims
\* The number of magnitude bytes of each width.
MagWidth(op) == IF op = "write_sorted_int" THEN 4 ELSE 8

\* Byte p of a, counted from the least significant one (p = 1).
ByteFromLow(a, p) == a[PyWidth - p + 1]

\* The least n in 1..w such that the bytes n+1..w of adj all equal pad.
MinLen(adj, w, pad) ==
  CHOOSE n \in 1..w :
    /\ \A p \in (n + 1)..w : ByteFromLow(adj, p) = pad
    /\ \A m \in 1..(n - 1) : \E p \in (m + 1)..w : ByteFromLow(adj, p) # pad

\* The n low bytes of adj, most significant first.
MagBytes(adj, n) == [i \in 1..n |-> ByteFromLow(adj, n - i + 1)]

\* The n bytes of b that follow the byte at offset.
BytesAfter(b, offset, n) == [i \in 1..n |-> b[offset + i]]

\* s < t, byte by byte and unsigned, a proper prefix being smaller.
RECURSIVE LexLtFrom(_, _, _)
LexLtFrom(s, t, i) ==
  IF i > Len(s) THEN i <= Len(t)
  ELSE IF i > Len(t) THEN FALSE
  ELSE IF s[i] # t[i] THEN s[i] < t[i]
  ELSE LexLtFrom(s, t, i + 1)

LexLt(s, t) == LexLtFrom(s, t, 1)

Written == wcall # None

WrittenBy(op) == wcall # None /\ wcall.op = op

\* C1: read_sorted_int returns the 32-bit value that write_sorted_int wrote at the
\* same offset.
C1_IntRoundTrip ==
  (WrittenBy("write_sorted_int") /\ rd # None) => rd.value = wcall.value

\* C2: read_sorted_long returns the 64-bit value that write_sorted_long wrote at the
\* same offset.
C2_LongRoundTrip ==
  (WrittenBy("write_sorted_long") /\ rd # None) => rd.value = wcall.value

\* C3: of two 32-bit values a < b, the bytes write_sorted_int writes for a are less
\* than those it writes for b, compared byte by byte and unsigned.
C3_IntOrder ==
  (WrittenBy("write_sorted_int") /\ other # None /\ PyLt(wcall.value, other.call.value))
    => LexLt(Encoded(buf, wcall), Encoded(other.buf, other.call))

C3_Witness ==
  /\ WrittenBy("write_sorted_int")
  /\ other # None
  /\ wcall.value = Py(-120)
  /\ other.call.value = IntMax
  /\ LexLt(Encoded(buf, wcall), Encoded(other.buf, other.call))

\* C4: of two 64-bit values a < b, the bytes write_sorted_long writes for a are less
\* than those it writes for b, compared byte by byte and unsigned.
C4_LongOrder ==
  (WrittenBy("write_sorted_long") /\ other # None /\ PyLt(wcall.value, other.call.value))
    => LexLt(Encoded(buf, wcall), Encoded(other.buf, other.call))

C4_Witness ==
  /\ WrittenBy("write_sorted_long")
  /\ other # None
  /\ wcall.value = LongMin
  /\ other.call.value = Py(-120)
  /\ LexLt(Encoded(buf, wcall), Encoded(other.buf, other.call))

\* C5: a value below -119 is written as the indicator 0x08 - n followed by the n low
\* bytes of value + 119, n being the least count that drops only leading 0xFF bytes.
C5_NegativeMinimal ==
  (Written /\ PyLt(wcall.value, Py(-119))) =>
    LET adj == PyAdd(wcall.value, Py(119))
        n == MinLen(adj, MagWidth(wcall.op), 255)
    IN /\ wcall.ret = wcall.offset + 1 + n
       /\ buf[wcall.offset] = 8 - n
       /\ BytesAfter(buf, wcall.offset, n) = MagBytes(adj, n)

C7_SingleByteBand ==
  /\ Written =>
       \A n \in -119..120 :
         wcall.value = Py(n) =>
           /\ buf[wcall.offset] = n + 127
           /\ wcall.ret = wcall.offset + 1
  /\ (Written /\ rd # None /\ buf[wcall.offset] \in 8..247) =>
       /\ rd.value = Py(buf[wcall.offset] - 127)
       /\ rd.offset = wcall.offset + 1

C7_Witness ==
  /\ Written
  /\ wcall.value = Py(0)
  /\ buf[wcall.offset] = 127
  /\ rd # None
  /\ rd.value = Py(0)

\* C8: the length get_read_sorted_*_length reports at the offset of a write equals
\* the number of bytes the write produced, and the read at that offset accesses
\* exactly those bytes.
C8_LengthDeterminism ==
  /\ (Written /\ len # None) => len.ret = wcall.ret - wcall.offset
  /\ (Written /\ rd # None) => rd.offset - wcall.offset = wcall.ret - wcall.offset

C8_Witness ==
  /\ WrittenBy("write_sorted_int")
  /\ wcall.value = IntMin
  /\ len # None
  /\ rd # None
  /\ len.ret = 5
  /\ rd.offset = wcall.offset + 5

\* C9: write_sorted_int(buf, 0, -120) writes the two bytes 0x07 0xFF and returns 2,
\* read_sorted_int gives -120 back, and -119 is written as the single byte 8.
C9_NegativeBoundary ==
  /\ (WrittenBy("write_sorted_int") /\ wcall.offset = 0 /\ wcall.value = Py(-120)) =>
       /\ wcall.ret = 2
       /\ buf[0] = 7
       /\ buf[1] = 255
       /\ rd # None => rd.value = Py(-120)
  /\ (WrittenBy("write_sorted_int") /\ wcall.value = Py(-119)) =>
       /\ wcall.ret = wcall.offset + 1
       /\ buf[wcall.offset] = 8

\* C10, as stated: write_sorted_int writes 120 as the single byte 0xF7 and 121 as the
\* two bytes 0xF8 0x01.
C10_PositiveBoundary ==
  /\ (WrittenBy("write_sorted_int") /\ wcall.value = Py(120)) =>
       /\ wcall.ret = wcall.offset + 1
       /\ buf[wcall.offset] = 247
  /\ (WrittenBy("write_sorted_int") /\ wcall.value = Py(121)) =>
       /\ wcall.ret = wcall.offset + 2
       /\ buf[wcall.offset] = 248
       /\ buf[wcall.offset + 1] = 1

\* C10, amended: write_sorted_int writes 120 as the single byte 0xF7 and 121 as the
\* two bytes 0xF8 0x00, the magnitude byte being 121 - 121.
C10_PositiveBoundaryAmended ==
  /\ (WrittenBy("write_sorted_int") /\ wcall.value = Py(120)) =>
       /\ wcall.ret = wcall.offset + 1
       /\ buf[wcall.offset] = 247
  /\ (WrittenBy("write_sorted_int") /\ wcall.value = Py(121)) =>
       /\ wcall.ret = wcall.offset + 2
       /\ buf[wcall.offset] = 248
       /\ buf[wcall.offset + 1] = 0

C10_Witness ==
  /\ WrittenBy("write_sorted_int")
  /\ wcall.value = Py(121)
  /\ wcall.ret = wcall.offset + 2
  /\ buf[wcall.offset] = 248


\* C11: a run of 32-bit values written one after the other is read back, value by
\* value and in order, by a loop that moves on by the probed length, and the loop
\* ends at the offset the last write returned.
C11_SelfDelimiting ==
  (sq # None /\ Len(sq.values) > 0 /\ Len(sq.decoded) = Len(sq.values)) =>
    /\ sq.decoded = sq.values
    /\ sq.roff = sq.woff

\* C12: an encoding of write_sorted_int is 1 to MAX_LENGTH bytes long and one of
\* write_sorted_long 1 to MAX_LONG_LENGTH; the least and the greatest value of each
\* width take the full length.
C12_EncodedLength ==
  /\ WrittenBy("write_sorted_int") =>
       /\ wcall.ret - wcall.offset \in 1..MAX_LENGTH
       /\ wcall.value \in {IntMin, IntMax} => wcall.ret - wcall.offset = 5
  /\ WrittenBy("write_sorted_long") =>
       /\ wcall.ret - wcall.offset \in 1..MAX_LONG_LENGTH
       /\ wcall.value \in {LongMin, LongMax} => wcall.ret - wcall.offset = 9

C12_Witness ==
  /\ WrittenBy("write_sorted_long")
  /\ wcall.value = LongMax
  /\ wcall.ret - wcall.offset = 9

\* C13: the length probes return 1 + (8 - b) for a byte b < 8 at the offset,
\* 1 + (b - 0xF7) for b > 0xF7 and 1 otherwise; they give the same result on any
\* buffer with the same byte at the offset, and leave the buffer as it was.
C13_LengthProbe ==
  len # None =>
    LET b == buf[len.offset]
    IN /\ len.ret = IF b < 8 THEN 1 + (8 - b) ELSE IF b > 247 THEN 1 + (b - 247) ELSE 1
       /\ buf = len.before
       /\ other # None => other.ret = len.ret

C13_Witness ==
  /\ len # None
  /\ len.op = "get_read_sorted_long_length"
  /\ buf[len.offset] = 250
  /\ len.ret = 4
  /\ other # None
  /\ other.buf # buf
  /\ other.ret = 4



\* The reads of claims C14 to C16. The buffer the i-th call left behind is the one
\* the next call found, or the stream's buffer after the last call.
Reads == {"read_boolean", "read_byte", "read_float", "read_fully", "read_int",
          "read_long", "read_short_int"}

After(i) == IF i < Len(calls) THEN calls[i + 1].before ELSE content

\* The number of bytes a read asks for.
Asked(call) ==
  CASE call.op \in {"read_boolean", "read_byte"} -> 1
    [] call.op = "read_short_int" -> 2
    [] call.op = "read_int" -> 4
    [] call.op \in {"read_long", "read_float"} -> 8
    [] call.op = "read_fully" ->
         LET start == call.args[2]
             end == IF call.args[3] = NotGiven THEN Len(call.args[1]) ELSE call.args[3][1]
         IN IF end > start THEN end - start ELSE 0

\* The bytes a returned read handed to its caller, recovered from its result.
Returned(call) ==
  CASE call.op = "read_boolean" -> <<IF call.result THEN 1 ELSE 0>>
    [] call.op = "read_byte" -> <<(call.result + 256) % 256>>
    [] call.op = "read_short_int" -> MagBytes(call.result, 2)
    [] call.op = "read_int" -> MagBytes(call.result, 4)
    [] call.op = "read_long" -> MagBytes(call.result, 8)
    [] call.op = "read_float" -> call.result.bits
    [] call.op = "read_fully" ->
         [i \in 1..Asked(call) |->
            call.result[Index(Len(call.result), call.args[2] + i - 1) + 1]]

Truth(byte) == IF byte = 0 THEN 0 ELSE 1

\* C14: a read that returns has removed exactly the first k bytes of the buffer (1
\* for read_boolean and read_byte, 2 for read_short_int, 4 for read_int, 8 for
\* read_long and read_float, end - start for read_fully), has left the bytes behind
\* them as they were, and has returned those k bytes: the reads of a sequence take
\* the buffer front to back.
C14_ReadConsumes ==
  \A i \in 1..Len(calls) :
    LET call == calls[i]
        k == Asked(call)
    IN (call.op \in Reads /\ call.status = "ok") =>
         /\ k <= Len(call.before)
         /\ After(i) = SubSeq(call.before, k + 1, Len(call.before))
         /\ IF call.op = "read_boolean"
            THEN Returned(call) = <<Truth(call.before[1])>>
            ELSE Returned(call) = SubSeq(call.before, 1, k)

C14_Witness ==
  /\ Len(calls) = 2
  /\ calls[1].op = "read_short_int" /\ calls[1].status = "ok"
  /\ calls[2].op = "read_fully" /\ calls[2].status = "ok"
  /\ calls[2].args[2] = 1 /\ calls[2].args[3] = Given(3)
  /\ Len(calls[1].before) = 5
  /\ content = <<calls[1].before[5]>>


\* C15: a read that asks for more bytes than the buffer holds does not return: it
\* raises IndexError, and no value comes back from it.
C15_Underflow ==
  \A i \in 1..Len(calls) :
    LET call == calls[i]
    IN (call.op \in Reads /\ Asked(call) > Len(call.before)) =>
         /\ call.status = "IndexError"
         /\ call.op # "read_fully" => call.result = None

C15_Witness ==
  /\ Len(calls) = 2
  /\ calls[1].op = "read_byte" /\ calls[1].status = "ok"
  /\ calls[2].op = "read_int" /\ calls[2].status = "IndexError"
  /\ Len(calls[2].before) = 3


\* C16: a read that fails leaves the stream as it found it: the buffer keeps the
\* bytes it had, and the destination of read_fully the bytes it had.
C16_FailedReadNoEffect ==
  \A i \in 1..Len(calls) :
    LET call == calls[i]
    IN (call.op \in Reads /\ call.status # "ok") =>
         /\ After(i) = call.before
         /\ call.op = "read_fully" => call.result = call.args[1]


\* C17: write_int_at_offset(offset, v) with 0 <= offset and offset + 4 <= the
\* length of the buffer, v a 32-bit value, puts the four bytes of v, most
\* significant first, at offset .. offset + 3 and leaves every other byte, and the
\* length, as they were.
C17_PatchInRange ==
  \A i \in 1..Len(calls) :
    LET call == calls[i]
        offset == call.args[1]
        n == Len(call.before)
    IN (/\ call.op = "write_int_at_offset"
        /\ InRange(IntMin, call.args[2], IntMax)
        /\ 0 <= offset
        /\ offset + 4 <= n) =>
         /\ call.status = "ok"
         /\ After(i) = [j \in 1..n |->
                          IF offset < j /\ j <= offset + 4
                          THEN MagBytes(call.args[2], 4)[j - offset]
                          ELSE call.before[j]]

C17_Witness ==
  /\ Len(calls) = 1
  /\ calls[1].op = "write_int_at_offset"
  /\ calls[1].args[1] = 1
  /\ Len(calls[1].before) = 5
  /\ calls[1].status = "ok"
  /\ content = <<calls[1].before[1], 10, 11, 12, 13>>


\* C18: write_int_at_offset(offset, v) with offset < 0 or offset + 4 > the length
\* of the buffer fails, and the buffer is as it was.
C18_PatchOutOfRange ==
  \A i \in 1..Len(calls) :
    LET call == calls[i]
        offset == call.args[1]
    IN (/\ call.op = "write_int_at_offset"
        /\ offset < 0 \/ offset + 4 > Len(call.before)) =>
         /\ call.status # "ok"
         /\ After(i) = call.before


\* The writes that append, and the number of bytes each appends.
Appends == {"write_boolean", "write_byte", "write_short_int", "write_int",
            "write_float", "write_bytearray", "write_value"}

Appended(call) ==
  CASE call.op \in {"write_boolean", "write_byte"} -> 1
    [] call.op = "write_short_int" -> 2
    [] call.op = "write_int" -> 4
    [] call.op = "write_float" -> 8
    [] call.op = "write_value" -> Len(call.args[1])
    [] call.op = "write_bytearray" ->
         LET start == call.args[2]
             end == IF call.args[3] = NotGiven THEN Len(call.args[1]) ELSE call.args[3][1]
         IN IF end > start THEN end - start ELSE 0

\* C19: a write that returns, write_int_at_offset apart, has appended its bytes to
\* the end of the buffer (1 for write_boolean and write_byte, 2 for
\* write_short_int, 4 for write_int, 8 for write_float, end - start for
\* write_bytearray) and changed none of the bytes before them; get_offset returns
\* the length of the buffer.
C19_WriteAppends ==
  \A i \in 1..Len(calls) :
    LET call == calls[i]
        n == Len(call.before)
    IN /\ (call.op \in Appends /\ call.status = "ok") =>
            /\ Len(After(i)) = n + Appended(call)
            /\ SubSeq(After(i), 1, n) = call.before
       /\ call.op = "get_offset" =>
            /\ call.result = n
            /\ After(i) = call.before

C19_Witness ==
  /\ Len(calls) = 2
  /\ calls[1].op = "write_short_int" /\ calls[1].status = "ok"
  /\ Len(calls[1].before) = 3
  /\ calls[2].op = "get_offset" /\ calls[2].result = 5
  /\ SubSeq(content, 4, 5) = <<128, 1>>


\* The read that follows the write of a pair, when it is the read named.
ReadBack(op) == Len(calls) = 2 /\ calls[2].op = op

\* C20: write_int(v), v a signed 32-bit value, appends the four bytes of v, most
\* significant first, and read_int over them returns v; write_short_int(v), v a
\* signed 16-bit value, appends its two bytes and read_short_int returns v;
\* write_boolean(b) appends one byte and read_boolean returns b, a byte that is
\* not zero being read as true.
C20_FixedWidthRoundTrip ==
  calls # <<>> =>
    LET w == calls[1]
        v == w.args[1]
    IN /\ (w.op = "write_int" /\ InRange(IntMin, v, IntMax)) =>
            /\ w.status = "ok"
            /\ After(1) = MagBytes(v, 4)
            /\ ReadBack("read_int") => calls[2].status = "ok" /\ calls[2].result = v
       /\ (w.op = "write_short_int" /\ InRange(ShortMin, v, ShortMax)) =>
            /\ w.status = "ok"
            /\ After(1) = MagBytes(v, 2)
            /\ ReadBack("read_short_int") =>
                 calls[2].status = "ok" /\ calls[2].result = v
       /\ w.op = "write_boolean" =>
            /\ w.status = "ok"
            /\ Len(After(1)) = 1
            /\ ReadBack("read_boolean") => calls[2].status = "ok" /\ calls[2].result = v
       /\ (w.op = "write_byte" /\ ReadBack("read_boolean")) =>
            calls[2].status = "ok" /\ calls[2].result = (v # 0)

C20_Witness ==
  /\ ReadBack("read_int")
  /\ calls[1].op = "write_int"
  /\ calls[1].args[1] = IntMin
  /\ calls[2].before = <<128, 0, 0, 0>>
  /\ calls[2].result = IntMin
  /\ content = <<>>


\* The bytes the calls i .. j appended, one after the other.
RECURSIVE AppendedBy(_, _)
AppendedBy(i, j) ==
  IF i > j THEN <<>>
  ELSE SubSeq(After(i), Len(calls[i].before) + 1, Len(After(i))) \o AppendedBy(i + 1, j)

\* C21: p = get_offset(); write_int(placeholder); the payload appended;
\* write_int_at_offset(p, n): the four bytes at p then read, by read_int, as n, the
\* payload after them is as it was appended, and so are the bytes written before p,
\* whatever the payload and however many writes came before.
C21_Backpatch ==
  Patched =>
    LET m == Marked
        p == calls[m].result
        last == Len(calls)
        n == calls[last].args[2]
        field == ReadInt(SubSeq(content, p + 1, p + 4))
    IN /\ calls[last].status = "ok"
       /\ field.status = "ok" /\ field.result = n
       /\ SubSeq(content, 1, p) = calls[m].before
       /\ SubSeq(content, p + 5, Len(content)) = AppendedBy(m + 2, last - 1)
       /\ Len(content) = p + 4 + Len(AppendedBy(m + 2, last - 1))

C21_Witness ==
  /\ Patched
  /\ Marked = 2
  /\ Len(calls) = 6
  /\ calls[1].op = "write_byte"
  /\ calls[4].op = "write_short_int"
  /\ calls[5].op = "write_value"
  /\ calls[6].args[2] = IntMin
  /\ content = <<200, 128, 0, 0, 0, 128, 1, 9, 8, 7>>


\* C22: read_byte returns the next byte as a signed 8-bit value: a stored byte u in
\* 0..127 gives u, a stored byte u in 128..255 gives u - 256, and the result lies
\* in -128..127.
C22_ReadByteSigned ==
  \A i \in 1..Len(calls) :
    LET call == calls[i]
    IN (call.op = "read_byte" /\ call.before # <<>>) =>
         LET u == call.before[1]
         IN /\ call.status = "ok"
            /\ u \in 0..127 => call.result = u
            /\ u \in 128..255 => call.result = u - 256
            /\ call.result \in -128..127

C22_Witness ==
  /\ Len(calls) = 1
  /\ calls[1].op = "read_byte"
  /\ calls[1].before = <<128>>
  /\ calls[1].result = -128
  /\ content = <<>>


\* C24: write_sorted_int(buf, offset, v) and write_sorted_long(buf, offset, v)
\* change only the places offset .. next - 1 of buf, next being the offset they
\* return: the bytes before offset and from next on keep their values, and buf its
\* length.
C24_EncoderFrame ==
  [][(wcall = None /\ wcall' # None) =>
       /\ DOMAIN buf' = DOMAIN buf
       /\ \A i \in DOMAIN buf :
            (i < wcall'.offset \/ i >= wcall'.ret) => buf'[i] = buf[i]]_vars

C24_Witness ==
  /\ WrittenBy("write_sorted_long")
  /\ wcall.offset = 1
  /\ wcall.ret = 6
  /\ buf[0] = 165
  /\ buf[1] # 165
  /\ \A i \in 6..(BufLen - 1) : buf[i] = 165


\* C25: for a value of the signed 32-bit range write_sorted_int and
\* write_sorted_long write the same bytes and return the same offset, and
\* read_sorted_long returns on the bytes of write_sorted_int the value that
\* read_sorted_int returns.
C25_WidthAgreement ==
  /\ wcall # None =>
       /\ other.call.ret = wcall.ret
       /\ Encoded(other.buf, other.call) = Encoded(buf, wcall)
  /\ rd # None => rd.long.value = rd.int.value


\* The number of bytes call i took off the buffer, and the number the calls
\* before i took off it.
Taken(i) ==
  IF calls[i].op \in Reads THEN Len(calls[i].before) - Len(After(i)) ELSE 0

RECURSIVE TakenBefore(_)
TakenBefore(i) == IF i <= 1 THEN 0 ELSE TakenBefore(i - 1) + Taken(i - 1)

\* C26: a writer and a reader on one buffer, whole appends and whole reads in any
\* order, no write_int_at_offset: an append leaves the bytes already in the buffer
\* in place, the bytes the reads have taken are, in the order taken, the first of
\* the bytes appended, and the buffer holds the appended bytes not yet taken.
C26_SharedFifo ==
  LET all == AppendedBy(1, Len(calls))
      taken == TakenBefore(Len(calls) + 1)
  IN /\ taken <= Len(all)
     /\ content = SubSeq(all, taken + 1, Len(all))
     /\ \A i \in 1..Len(calls) :
          LET call == calls[i]
              from == TakenBefore(i)
          IN /\ call.op \in Appends =>
                  SubSeq(After(i), 1, Len(call.before)) = call.before
             /\ call.op \in Reads =>
                  After(i) = SubSeq(call.before, Taken(i) + 1, Len(call.before))
             /\ (call.op \in Reads /\ call.status = "ok") =>
                  /\ Taken(i) = Asked(call)
                  /\ IF call.op = "read_boolean"
                     THEN Returned(call) = <<Truth(all[from + 1])>>
                     ELSE Returned(call) = SubSeq(all, from + 1, from + Taken(i))

C26_Witness ==
  /\ Len(calls) = 3
  /\ calls[1].op = "write_int" /\ calls[1].status = "ok"
  /\ calls[2].op = "read_short_int" /\ calls[2].result = PyHex(<<1, 2>>)
  /\ calls[3].op = "write_byte" /\ calls[3].status = "ok"
  /\ content = <<3, 4, 200>>


\* The cache the i-th call on the Memoize left, and the set calls before the
\* i-th call that were made with its key.
CacheAfter(i) == IF i < Len(memo.log) THEN memo.log[i + 1].before ELSE memo.m.cache

SetsBefore(i) ==
  { j \in 1..(i - 1) : memo.log[j].op = "set" /\ memo.log[j].key = memo.log[i].key }

Latest(S) == CHOOSE j \in S : \A k \in S : k <= j

\* C27: the clock never going backwards, get(key) returns the value of the latest
\* set(key, v) when the time of the get less the time of that set is at most
\* duration, and None when the key was never set or that age is above duration;
\* get leaves the cache as it was; a later set replaces the value and the age runs
\* from it.
C27_MemoizeExpiry ==
  \A i \in 1..Len(memo.log) :
    LET call == memo.log[i]
    IN call.op = "get" =>
         /\ CacheAfter(i) = call.before
         /\ IF SetsBefore(i) = {} THEN call.result = None
            ELSE LET set == memo.log[Latest(SetsBefore(i))]
                 IN call.result = IF call.at - set.at <= memo.m.duration
                                  THEN set.value
                                  ELSE None

C27_Witness ==
  /\ memo.m.duration = 2
  /\ Len(memo.log) = 3
  /\ memo.log[1].op = "set" /\ memo.log[1].key = "k1" /\ memo.log[1].at = 0
  /\ memo.log[1].value = [token |-> "t1"]
  /\ memo.log[2].op = "set" /\ memo.log[2].key = "k1" /\ memo.log[2].at = 1
  /\ memo.log[2].value = [token |-> "t2"]
  /\ memo.log[3].op = "get" /\ memo.log[3].key = "k1" /\ memo.log[3].at = 3
  /\ memo.log[3].result = [token |-> "t2"]


\* C23: copy_statement returns a new statement with no bind variables
\* (get_variables() is None), and a set_variable or clear_variables on one
\* statement, the copy or the original, leaves the bound variables of every other
\* statement as they were.
C23_CopyIndependent ==
  ps.last # None =>
    /\ ps.last.op = "copy_statement" =>
         /\ Len(ps.stmts) = Len(ps.last.before.stmts) + 1
         /\ GetVariables(ps, ps.last.result) = None
         /\ \A t \in 1..Len(ps.last.before.stmts) :
              GetVariables(ps, t) = GetVariables(ps.last.before, t)
    /\ ps.last.op \in {"set_variable", "clear_variables"} =>
         \A t \in 1..Len(ps.stmts) :
           t # ps.last.stmt => GetVariables(ps, t) = GetVariables(ps.last.before, t)

C23_Witness ==
  /\ Len(ps.stmts) = 2
  /\ ps.last # None
  /\ ps.last.op = "set_variable" /\ ps.last.stmt = 2 /\ ps.last.status = "ok"
  /\ GetVariables(ps.last.before, 2) = None
  /\ GetVariables(ps, 2) = [k \in {"a"} |-> 7]
  /\ GetVariables(ps, 1) = [k \in {"a"} |-> 5]


\* C29: a set_variable that raises IllegalArgumentException (the name not a
\* non-empty string, or not one of the query's external variables) changes
\* nothing: get_variables() and get_variable_values() return what they returned
\* before the call, None included when no variable had been bound.
C29_RejectedSetVariable ==
  (/\ ps.last # None
   /\ ps.last.op = "set_variable"
   /\ ps.last.status = "IllegalArgumentException") =>
    /\ GetVariables(ps, ps.last.stmt) = GetVariables(ps.last.before, ps.last.stmt)
    /\ GetVariableValues(ps, ps.last.stmt) =
         GetVariableValues(ps.last.before, ps.last.stmt)


\* C30: the external variables having the distinct ids 0..k-1, once set_variable
\* has succeeded for some of the names get_variable_values() returns a list
\* holding, at the id of each bound name, the value bound to it last; it returns
\* None when set_variable was never called.
C30_ValuesAtIds ==
  \A s \in 1..Len(ps.stmts) :
    LET values == GetVariableValues(ps, s)
        variables == ps.stmts[s].variables
    IN IF ps.stmts[s].bound_variables = None
       THEN values.status = "ok" /\ values.result = None
       ELSE DOMAIN BoundVariables(ps, s) # {} =>
              /\ values.status = "ok"
              /\ \A name \in DOMAIN BoundVariables(ps, s) :
                   values.result.list[variables[name] + 1] = BoundVariables(ps, s)[name]
              /\ (/\ ps.last.op = "set_variable"
                  /\ ps.last.stmt = s
                  /\ ps.last.status = "ok") =>
                   values.result.list[variables[ps.last.args[1].str] + 1] = ps.last.args[2]


\* The largest of a set of numbers.
Largest(S) == CHOOSE n \in S : \A m \in S : m <= n

AllReturned == \A t \in Threads : At(t, "idle")

\* Steps never lower the sequence number, and a topology_seq_num() never
\* returned more than the sequence number is now.
NeverDecreases ==
  /\ [][TopologySeqNum(ps, 1)' >= TopologySeqNum(ps, 1)]_vars
  /\ [](\A t \in Threads :
          ps.threads[t].result # None =>
            ps.threads[t].result.value <= TopologySeqNum(ps, 1))

\* While a call set_topology_info(None) is under way the topology stays as it is.
NoneChangesNothing ==
  [][(\E t \in Threads : ~At(t, "idle") /\ ~At(t, "seq_num") /\ ps.threads[t].arg = None
                           /\ ps.stmts[1].lock = [holder |-> t])
       => ps.stmts[1].topology_info' = ps.stmts[1].topology_info]_vars

\* C28: threads calling set_topology_info in any interleaving, topology_seq_num()
\* never decreases, an argument None changes nothing, and when every call has
\* returned topology_seq_num() is the largest sequence number among the
\* arguments that were not None, or -1 if there were none and the statement was
\* constructed with no topology.
C28_TopologyMonotone ==
  /\ NeverDecreases
  /\ NoneChangesNothing
  /\ [](AllReturned =>
          IF ps.passed # {} THEN TopologySeqNum(ps, 1) = Largest(ps.passed)
          ELSE ps.first = None => TopologySeqNum(ps, 1) = -1)

\* C28 as it holds: when every call has returned, topology_seq_num() is the
\* largest among the sequence number of the topology the statement was
\* constructed with, if any, and those of the arguments that were not None; -1 if
\* there is none of either.
C28_TopologyMonotoneAmended ==
  /\ NeverDecreases
  /\ NoneChangesNothing
  /\ [](AllReturned =>
          LET all == ps.passed \cup (IF ps.first = None THEN {} ELSE {ps.first.seq_num})
          IN TopologySeqNum(ps, 1) = IF all = {} THEN -1 ELSE Largest(all))

C28_Witness ==
  /\ AllReturned
  /\ ps.first = [seq_num |-> 1]
  /\ ps.passed = {0, 2}
  /\ TopologySeqNum(ps, 1) = 2
  /\ \A t \in Threads : ps.threads[t].result = [value |-> 1]

=========================================================================
